---- MODULE Spec2Model ----
(***************************************************************************)
(* Model of Project_3.py: the load-and-resample pipeline load_data(), its  *)
(* st.cache_data memoisation, and the dashboard's date filter.             *)
(*                                                                         *)
(* A table (the store's table, a DataFrame) is a sequence of runs          *)
(* [row |-> r, n |-> k]: k consecutive identical rows r.  Timestamps are   *)
(* minutes since 2007-01-00 00:00; a float is an exact fraction num/den.   *)
(***************************************************************************)
EXTENDS Integers, Sequences, FiniteSets, TLC

\* ------------------------------------------------------------------ bounds
MaxRuns == 3        \* runs in a store drawn by InitLoad
MaxInserts == 2     \* runs a store of Spec grows to
MaxDay == 2         \* dates the date_input widgets offer: day 1 .. MaxDay

\* --------------------------------------------------------------- constants
LIMIT == 10000      \* "... LIMIT 10000"

numeric_cols ==
    << "Global_active_power", "Global_reactive_power", "Voltage",
       "Global_intensity", "Sub_metering_1", "Sub_metering_2", "Sub_metering_3" >>

Channels == { numeric_cols[i] : i \in 1..Len(numeric_cols) }
Columns == Channels \cup {"Datetime"}

ColIndex(c) == CHOOSE i \in 1..Len(numeric_cols) : numeric_cols[i] = c

\* ------------------------------------------------------- cells of the store
\* A Datetime cell as stored: NULL, the empty text, an ISO text
\* "2007-01-0d hh:mm:00", or a text that is no timestamp ("n/a").
NullDt == [k |-> "null", d |-> 0, h |-> 0, m |-> 0]
EmptyDt == [k |-> "empty", d |-> 0, h |-> 0, m |-> 0]
JunkDt == [k |-> "junk", d |-> 0, h |-> 0, m |-> 0]
Iso(d, h, m) == [k |-> "iso", d |-> d, h |-> h, m |-> m]

\* A channel cell as stored: a number, or the text "?" .
Num(v) == [k |-> "num", v |-> v]
JunkNum == [k |-> "junk", v |-> 0]

\* A raw row: channel c holds base + its column index, or "?" when c \in bad.
Row(dt, base, bad) ==
    [c \in Columns |->
        IF c = "Datetime" THEN dt
        ELSE IF c \in bad THEN JunkNum ELSE Num(base + ColIndex(c))]

Run(r, n) == [row |-> r, n |-> n]

RECURSIVE NRows(_)
NRows(t) == IF t = <<>> THEN 0 ELSE Head(t).n + NRows(Tail(t))

\* ------------------------------------------ the query (lines 11-12), SQLite
\* SQLite's comparison of two stored Datetime cells: NULL sorts below every
\* text, texts compare bytewise ("" < "2007-..." < "n/a").
StorageRank(x) ==
    CASE x.k = "null" -> 0
      [] x.k = "empty" -> 1
      [] x.k = "iso" -> 2
      [] x.k = "junk" -> 3

DatetimeLess(a, b) ==
    \/ StorageRank(a) < StorageRank(b)
    \/ /\ a.k = "iso" /\ b.k = "iso"
       /\ \/ a.d < b.d
          \/ a.d = b.d /\ a.h < b.h
          \/ a.d = b.d /\ a.h = b.h /\ a.m < b.m

\* mutant: ORDER BY Datetime ASC
OrderByDatetimeAsc(t) ==
    { [i \in 1..Len(t) |-> t[p[i]]] : p \in
        { q \in Permutations(1..Len(t)) :
            \A i, j \in 1..Len(t) :
                i < j => ~DatetimeLess(t[q[j]].row["Datetime"], t[q[i]].row["Datetime"]) } }

\* ORDER BY Datetime DESC: every ordering of the table in which no row comes
\* before a row of greater Datetime (the order of ties is unspecified).
OrderByDatetimeDesc(t) ==
    { [i \in 1..Len(t) |-> t[p[i]]] : p \in
        { q \in Permutations(1..Len(t)) :
            \A i, j \in 1..Len(t) :
                i < j => ~DatetimeLess(t[q[i]].row["Datetime"], t[q[j]].row["Datetime"]) } }

\* LIMIT k: the first k rows of an ordered table.
RECURSIVE Limit(_, _)
Limit(t, k) ==
    IF t = <<>> \/ k = 0 THEN <<>>
    ELSE IF Head(t).n >= k THEN << Run(Head(t).row, k) >>
    ELSE << Head(t) >> \o Limit(Tail(t), k - Head(t).n)

\* pd.read_sql(query, conn): the result sets the query can return.
read_sql(t) == { Limit(s, LIMIT) : s \in OrderByDatetimeDesc(t) }

\* ------------------------------------------------- parsing (lines 16-23)
NaT == [nat |-> TRUE, t |-> 0]
Timestamp(t) == [nat |-> FALSE, t |-> t]

NaN == [nan |-> TRUE, num |-> 0, den |-> 1]
Float(num, den) == [nan |-> FALSE, num |-> num, den |-> den]

\* pd.to_datetime(x, errors="coerce")
to_datetime(x) ==
    IF x.k = "iso" THEN Timestamp((x.d * 24 + x.h) * 60 + x.m) ELSE NaT

\* pd.to_numeric(x, errors="coerce")
to_numeric(x) == IF x.k = "num" THEN Float(x.v, 1) ELSE NaN

\* mutant: a row with a bad cell is dropped (df.dropna())
ParseDropna(t) ==
    LET P(r) == [c \in Columns |->
                    IF c = "Datetime" THEN to_datetime(r[c]) ELSE to_numeric(r[c])]
        all == [i \in 1..Len(t) |-> Run(P(t[i].row), t[i].n)]
    IN  SelectSeq(all, LAMBDA u : \A c \in Channels : ~u.row[c].nan)

\* lines 16-23: the Datetime column and the seven channels, cell by cell.
Parse(t) ==
    LET P(r) == [c \in Columns |->
                    IF c = "Datetime" THEN to_datetime(r[c]) ELSE to_numeric(r[c])]
    IN  [i \in 1..Len(t) |-> Run(P(t[i].row), t[i].n)]

\* ------------------------------------------ resampling (line 26), pandas
Hour == 60          \* resample("H"): the bin width, in minutes

RECURSIVE Gcd(_, _)
Gcd(a, b) == IF b = 0 THEN a ELSE Gcd(b, a % b)

\* the float sum / cnt
Div(sum, cnt) == LET g == Gcd(sum, cnt) IN Float(sum \div g, cnt \div g)

IndexKey(u) == IF u.row["Datetime"].nat THEN -1 ELSE u.row["Datetime"].t

InsertSorted(s, u) ==
    LET k == Cardinality({ i \in 1..Len(s) : IndexKey(s[i]) <= IndexKey(u) })
    IN  SubSeq(s, 1, k) \o << u >> \o SubSeq(s, k + 1, Len(s))

\* the resampler's stable argsort of the index, NaT first
RECURSIVE sort_index(_)
sort_index(t) ==
    IF t = <<>> THEN <<>>
    ELSE InsertSorted(sort_index(SubSeq(t, 1, Len(t) - 1)), t[Len(t)])

ValidPos(ax) == { i \in 1..Len(ax) : ~ax[i].row["Datetime"].nat }
NatCount(ax) == Len(ax) - Cardinality(ValidPos(ax))

AxMin(ax) == LET V == ValidPos(ax)
             IN  ax[CHOOSE i \in V : \A j \in V : IndexKey(ax[i]) <= IndexKey(ax[j])].row["Datetime"].t
AxMax(ax) == LET V == ValidPos(ax)
             IN  ax[CHOOSE i \in V : \A j \in V : IndexKey(ax[i]) >= IndexKey(ax[j])].row["Datetime"].t

\* _get_timestamp_range_edges, closed = "left", origin = "start_day"
FirstEdge(ax) ==
    LET foffset == AxMin(ax) % Hour
    IN  IF foffset > 0 THEN AxMin(ax) - foffset ELSE AxMin(ax)
LastEdge(ax) ==
    LET loffset == AxMax(ax) % Hour
    IN  IF loffset > 0 THEN AxMax(ax) + (Hour - loffset) ELSE AxMax(ax) + Hour

NBins(ax) == (LastEdge(ax) - FirstEdge(ax)) \div Hour

\* date_range(first, last, freq="H"): the label of bin i
Label(ax, i) == FirstEdge(ax) + (i - 1) * Hour

\* generate_bins_dt64: bins[i] is the number of index entries left of the
\* right edge of bin i (the NaT entries, sorted first, included).
Bins(ax) ==
    [i \in 1..NBins(ax) |->
        NatCount(ax)
        + Cardinality({ p \in ValidPos(ax) : IndexKey(ax[p]) < FirstEdge(ax) + i * Hour })]

\* mutant: bins one day wide
CodeDaily(ax, p) ==
    IF p <= NatCount(ax) THEN 0
    ELSE ((IndexKey(ax[p]) - FirstEdge(ax)) \div (24 * Hour)) + 1

\* BinGrouper.group_info: the bin of the index entry at position p; an entry
\* under NaT gets no bin (pandas' -1, here 0).
Code(ax, p) ==
    IF p <= NatCount(ax) THEN 0
    ELSE CHOOSE i \in 1..NBins(ax) :
            /\ p <= Bins(ax)[i]
            /\ i = 1 \/ p > Bins(ax)[i - 1]

\* the sorted frame with each entry's bin
Grouped(ax) == [p \in 1..Len(ax) |-> [row |-> ax[p].row, n |-> ax[p].n, code |-> Code(ax, p)]]

\* the entries whose value of channel c enters the mean of bin i
Contrib(g, i, c) == { p \in 1..Len(g) : g[p].code = i /\ ~g[p].row[c].nan }

RECURSIVE SumOver(_, _, _)
SumOver(g, S, c) ==
    IF S = {} THEN 0
    ELSE LET p == CHOOSE q \in S : TRUE
         IN  g[p].n * g[p].row[c].num + SumOver(g, S \ {p}, c)

RECURSIVE CountOver(_, _)
CountOver(g, S) ==
    IF S = {} THEN 0
    ELSE LET p == CHOOSE q \in S : TRUE
         IN  g[p].n + CountOver(g, S \ {p})

\* mutant: a missing value counts as 0 (fillna(0) before the mean)
MeanFillZero(g, i, c) ==
    LET S == Contrib(g, i, c)
        A == { p \in 1..Len(g) : g[p].code = i }
    IN  IF A = {} THEN NaN ELSE Div(SumOver(g, S, c), CountOver(g, A))

\* .mean(): skipna, NaN for a bin without a value
Mean(g, i, c) ==
    LET S == Contrib(g, i, c)
    IN  IF S = {} THEN NaN ELSE Div(SumOver(g, S, c), CountOver(g, S))

\* mutant: no record for a bin that holds no row
RecordsNoGaps(ax) ==
    LET g == Grouped(ax)
        all == [i \in 1..NBins(ax) |->
                   [c \in Columns |->
                       IF c = "Datetime" THEN Timestamp(Label(ax, i)) ELSE Mean(g, i, c)]]
    IN  SelectSeq(all, LAMBDA r :
            \E p \in 1..Len(g) : g[p].code >= 1 /\ Label(ax, g[p].code) = r["Datetime"].t)

\* mutant: the bins are emitted latest first
RecordsDescending(ax) ==
    LET g == Grouped(ax)
    IN  [i \in 1..NBins(ax) |->
            [c \in Columns |->
                IF c = "Datetime" THEN Timestamp(Label(ax, NBins(ax) + 1 - i))
                ELSE Mean(g, NBins(ax) + 1 - i, c)]]

\* .mean().reset_index(): one record per bin, in bin order
Records(ax) ==
    LET g == Grouped(ax)
    IN  [i \in 1..NBins(ax) |->
            [c \in Columns |->
                IF c = "Datetime" THEN Timestamp(Label(ax, i)) ELSE Mean(g, i, c)]]

\* date_range raises ValueError when the index holds rows and all are NaT
ResampleRaises(ax) == Len(ax) > 0 /\ ValidPos(ax) = {}

\* df.set_index("Datetime").resample("H")[numeric_cols].mean().reset_index()
resample(t) ==
    LET ax == sort_index(t)
    IN  IF Len(ax) = 0 THEN <<>> ELSE Records(ax)

\* ------------------------------------------------------------------ state
VARIABLES
    store,          \* rows of table power_consumption in power_pulse.db
    table_ok,       \* the table exists
    cache,          \* st.cache_data's entry for load_data()
    pc,             \* "idle", or the script run's position: "loaded", "done", "halted"
    conn,           \* the connection this run's load_data opened: "none", "open", "closed"
    raw,            \* the frame read_sql returned (line 12)
    grouped,        \* the resampler's sorted frame with each entry's bin (line 26)
    df,             \* line 30
    outcome,        \* "none", "ok", or the exception that halted the run
    page,           \* line 33
    start_date,     \* line 65
    end_date,       \* line 66
    filtered_df     \* line 69, with line 120's column

vars == << store, table_ok, cache, pc, conn, raw, grouped, df, outcome,
           page, start_date, end_date, filtered_df >>

NoEntry == [hit |-> FALSE, df |-> <<>>]
Entry(d) == [hit |-> TRUE, df |-> d]

RunLocals0 ==
    /\ conn = "none" /\ raw = <<>> /\ grouped = <<>> /\ df = <<>>
    /\ outcome = "none" /\ page = "none"
    /\ start_date = 1 /\ end_date = 1 /\ filtered_df = <<>>

Init ==
    /\ store = <<>>
    /\ table_ok = TRUE
    /\ cache = NoEntry
    /\ pc = "idle"
    /\ RunLocals0

\* ------------------------------------------------------ load_data, line 30
\* mutant: the entry is ignored and the body runs again
LoadCachedRequery ==
    /\ pc = "idle"
    /\ cache.hit
    /\ table_ok
    /\ \E r \in read_sql(store) :
        /\ ~ResampleRaises(sort_index(Parse(r)))
        /\ raw' = r
        /\ grouped' = (IF r = <<>> THEN <<>> ELSE Grouped(sort_index(Parse(r))))
        /\ df' = resample(Parse(r))
    /\ cache' = Entry(df')
    /\ conn' = "closed"
    /\ outcome' = "ok"
    /\ pc' = "loaded"
    /\ UNCHANGED << store, table_ok, page, start_date, end_date, filtered_df >>

\* @st.cache_data, entry present: the stored value, load_data's body not run.
LoadCached ==
    /\ pc = "idle"
    /\ cache.hit
    /\ df' = cache.df
    /\ conn' = "none"
    /\ outcome' = "ok"
    /\ pc' = "loaded"
    /\ UNCHANGED << store, table_ok, cache, raw, grouped, page,
                    start_date, end_date, filtered_df >>

\* lines 10-12 with the table missing: connect succeeds, read_sql raises, and
\* line 13 is not reached.
LoadQueryFails ==
    /\ pc = "idle"
    /\ ~cache.hit
    /\ ~table_ok
    /\ conn' = "open"
    /\ outcome' = "DatabaseError"
    /\ pc' = "halted"
    /\ UNCHANGED << store, table_ok, cache, raw, grouped, df, page,
                    start_date, end_date, filtered_df >>

\* lines 10-28, the query succeeding
LoadBody ==
    /\ pc = "idle"
    /\ ~cache.hit
    /\ table_ok
    /\ \E r \in read_sql(store) :
        LET ax == sort_index(Parse(r))
        IN  /\ raw' = r
            /\ conn' = "closed"
            /\ IF ResampleRaises(ax)
               THEN /\ outcome' = "ValueError"
                    /\ pc' = "halted"
                    /\ UNCHANGED << cache, grouped, df >>
               ELSE /\ grouped' = (IF Len(ax) = 0 THEN <<>> ELSE Grouped(ax))
                    /\ df' = resample(Parse(r))
                    /\ cache' = Entry(df')
                    /\ outcome' = "ok"
                    /\ pc' = "loaded"
    /\ UNCHANGED << store, table_ok, page, start_date, end_date, filtered_df >>

\* ------------------------------------------------- the pages, lines 33-123
Dates == 1..MaxDay

\* str(date) compared with the Datetime column: the date's midnight
DateAsTimestamp(d) == d * 24 * Hour

\* line 69
Filter(d, sd, ed) ==
    SelectSeq(d, LAMBDA r : /\ r["Datetime"].t >= DateAsTimestamp(sd)
                            /\ r["Datetime"].t <= DateAsTimestamp(ed))

\* line 120: Predicted = Global_active_power * 1.02
Predict(x) == IF x.nan THEN NaN ELSE Div(x.num * 51, x.den * 50)
WithPredicted(d) ==
    [i \in 1..Len(d) |->
        [c \in Columns \cup {"Predicted"} |->
            IF c = "Predicted" THEN Predict(d[i]["Global_active_power"]) ELSE d[i][c]]]

ProjectSummary ==
    /\ pc = "loaded"
    /\ page' = "Project Summary"
    /\ pc' = "done"
    /\ UNCHANGED << store, table_ok, cache, conn, raw, grouped, df, outcome,
                    start_date, end_date, filtered_df >>

\* lines 65-66 on an empty frame: min() is NaT and NaT.date() raises
DashboardEmpty ==
    /\ pc = "loaded"
    /\ df = <<>>
    /\ page' = "Dashboard"
    /\ outcome' = "ValueError"
    /\ pc' = "halted"
    /\ UNCHANGED << store, table_ok, cache, conn, raw, grouped, df,
                    start_date, end_date, filtered_df >>

Dashboard(sd, ed) ==
    /\ pc = "loaded"
    /\ df # <<>>
    /\ page' = "Dashboard"
    /\ start_date' = sd
    /\ end_date' = ed
    /\ filtered_df' = WithPredicted(Filter(df, sd, ed))
    /\ pc' = "done"
    /\ UNCHANGED << store, table_ok, cache, conn, raw, grouped, df, outcome >>

\* the script run is over; its variables are gone
EndRun ==
    /\ pc \in {"done", "halted"}
    /\ pc' = "idle"
    /\ conn' = "none" /\ raw' = <<>> /\ grouped' = <<>> /\ df' = <<>>
    /\ outcome' = "none" /\ page' = "none"
    /\ start_date' = 1 /\ end_date' = 1 /\ filtered_df' = <<>>
    /\ UNCHANGED << store, table_ok, cache >>

\* ------------------------------------------------------- the environment
\* Streamlit's "Clear cache", or a restart of the process
CacheClear ==
    /\ pc = "idle"
    /\ cache.hit
    /\ cache' = NoEntry
    /\ UNCHANGED << store, table_ok, pc, conn, raw, grouped, df, outcome,
                    page, start_date, end_date, filtered_df >>

\* rows another program may write between two script runs
NewRows ==
    { Row(Iso(1, 23, 30), 10, {}), Row(Iso(2, 0, 20), 30, {}),
      Row(Iso(2, 1, 0), 20, {"Voltage"}), Row(JunkDt, 10, {}) }

StoreInsert(r) ==
    /\ pc = "idle"
    /\ table_ok
    /\ Len(store) < MaxInserts
    /\ store' = Append(store, Run(r, 1))
    /\ UNCHANGED << table_ok, cache, pc, conn, raw, grouped, df, outcome,
                    page, start_date, end_date, filtered_df >>

DropTable ==
    /\ pc = "idle"
    /\ table_ok
    /\ table_ok' = FALSE
    /\ store' = <<>>
    /\ UNCHANGED << cache, pc, conn, raw, grouped, df, outcome,
                    page, start_date, end_date, filtered_df >>

CreateTable ==
    /\ pc = "idle"
    /\ ~table_ok
    /\ table_ok' = TRUE
    /\ UNCHANGED << store, cache, pc, conn, raw, grouped, df, outcome,
                    page, start_date, end_date, filtered_df >>

Next ==
    \/ LoadCached
    \/ LoadQueryFails
    \/ LoadBody
    \/ ProjectSummary
    \/ DashboardEmpty
    \/ \E sd, ed \in Dates : Dashboard(sd, ed)
    \/ EndRun
    \/ CacheClear
    \/ \E r \in NewRows : StoreInsert(r)
    \/ DropTable
    \/ CreateTable

Spec == Init /\ [][Next]_vars

\* ------------------------------------------- load_data on bounded stores
RunLens == {1, LIMIT - 1}

LoadRows ==
    { Row(Iso(1, 10, 5), 10, {}),
      Row(Iso(1, 10, 40), 20, {"Voltage"}),
      Row(Iso(1, 10, 40), 30, {}),
      Row(Iso(1, 11, 10), 30, Channels),
      Row(Iso(1, 13, 0), 20, {}),
      Row(JunkDt, 10, {}),
      Row(EmptyDt, 30, {}),
      Row(NullDt, 20, {"Sub_metering_3"}) }

LoadRuns == { Run(r, n) : r \in LoadRows, n \in RunLens }

Stores == UNION { [1..k -> LoadRuns] : k \in 0..MaxRuns }

InitLoad ==
    /\ store \in Stores
    /\ table_ok = TRUE
    /\ cache = NoEntry
    /\ pc = "idle"
    /\ RunLocals0

NextLoad == LoadBody

SpecLoad == InitLoad /\ [][NextLoad]_vars

\* ----------------------------------------------------------------- claims
\* line 12 returned in this run
BodyRan == pc # "idle" /\ conn = "closed"
\* load_data's body ran and returned df
Returned == BodyRan /\ pc = "loaded"

RowsOf(t) == { t[i].row : i \in 1..Len(t) }

RECURSIVE CountIn(_, _)
CountIn(t, r) ==
    IF t = <<>> THEN 0
    ELSE (IF Head(t).row = r THEN Head(t).n ELSE 0) + CountIn(Tail(t), r)

\* the start of the calendar hour a stored Datetime text names
HourOfText(x) == (x.d * 24 + x.h) * Hour
InHour(x, h) == x.k = "iso" /\ HourOfText(x) = h

RECURSIVE RawSum(_, _, _)
RawSum(t, h, c) ==
    IF t = <<>> THEN 0
    ELSE (IF InHour(Head(t).row["Datetime"], h) /\ Head(t).row[c].k = "num"
          THEN Head(t).n * Head(t).row[c].v ELSE 0) + RawSum(Tail(t), h, c)

RECURSIVE RawCount(_, _, _)
RawCount(t, h, c) ==
    IF t = <<>> THEN 0
    ELSE (IF InHour(Head(t).row["Datetime"], h) /\ Head(t).row[c].k = "num"
          THEN Head(t).n ELSE 0) + RawCount(Tail(t), h, c)

\* C1: the rows read_sql returns are rows of the store, at most LIMIT of them,
\* exactly LIMIT when the store holds more, and no row left out has a Datetime
\* greater (in the store's ordering) than a row that was loaded.
C1_RowCap ==
    BodyRan =>
        /\ NRows(raw) <= LIMIT
        /\ (NRows(store) > LIMIT => NRows(raw) = LIMIT)
        /\ \A r \in RowsOf(raw) : CountIn(raw, r) <= CountIn(store, r)
        /\ \A r \in RowsOf(store), q \in RowsOf(raw) :
              CountIn(raw, r) < CountIn(store, r)
                  => ~DatetimeLess(q["Datetime"], r["Datetime"])

C1_Witness ==
    /\ BodyRan
    /\ NRows(store) > LIMIT
    /\ NRows(raw) = LIMIT
    /\ \E r \in RowsOf(store), q \in RowsOf(raw) :
          /\ CountIn(raw, r) < CountIn(store, r)
          /\ DatetimeLess(r["Datetime"], q["Datetime"])

\* C2: every cell of every returned record is the arithmetic mean of the
\* numeric values of its channel among the loaded rows of its hour, and is
\* missing when no loaded row of the hour has a numeric value there.
C2_Mean ==
    Returned =>
        \A i \in 1..Len(df), c \in Channels :
            LET h == df[i]["Datetime"].t
                cnt == RawCount(raw, h, c)
                sum == RawSum(raw, h, c)
                x == df[i][c]
            IN  IF cnt = 0 THEN x = NaN
                ELSE /\ ~x.nan
                     /\ cnt % x.den = 0
                     /\ x.num * (cnt \div x.den) = sum

C2_Witness ==
    /\ Returned
    /\ \E i \in 1..Len(df), c \in Channels :
          /\ df[i][c].nan
          /\ \E p \in 1..Len(raw) : InHour(raw[p].row["Datetime"], df[i]["Datetime"].t)
    /\ \E i \in 1..Len(df), c \in Channels, p, q \in 1..Len(raw) :
          /\ ~df[i][c].nan
          /\ InHour(raw[p].row["Datetime"], df[i]["Datetime"].t)
          /\ InHour(raw[q].row["Datetime"], df[i]["Datetime"].t)
          /\ raw[p].row[c].k = "num" /\ raw[q].row[c].k = "num"
          /\ raw[p].row[c].v # raw[q].row[c].v
          /\ df[i][c] # Float(raw[p].row[c].v, 1)
          /\ df[i][c] # Float(raw[q].row[c].v, 1)

LoadedHours == { HourOfText(raw[p].row["Datetime"]) :
                    p \in { q \in 1..Len(raw) : raw[q].row["Datetime"].k = "iso" } }
EmptyHour(h) == \A p \in 1..Len(raw) : ~InHour(raw[p].row["Datetime"], h)
RecordHours == { df[i]["Datetime"].t : i \in 1..Len(df) }

\* C3 as claimed: every returned record's hour is the hour of at least one
\* loaded row with a valid timestamp.
C3_NoEmptyHours ==
    Returned => \A i \in 1..Len(df) : ~EmptyHour(df[i]["Datetime"].t)

\* C3 amended: the returned records are exactly the calendar hours from the
\* earliest to the latest hour of a loaded row with a valid timestamp, one
\* record each; the record of an hour without a loaded row has all seven
\* channels missing.
C3_HoursSpanned ==
    Returned =>
        /\ LoadedHours = {} => df = <<>>
        /\ LoadedHours # {} =>
              LET lo == CHOOSE h \in LoadedHours : \A g \in LoadedHours : h <= g
                  hi == CHOOSE h \in LoadedHours : \A g \in LoadedHours : h >= g
              IN  /\ RecordHours = { lo + k * Hour : k \in 0..((hi - lo) \div Hour) }
                  /\ Len(df) = Cardinality(RecordHours)
        /\ \A i \in 1..Len(df) :
              EmptyHour(df[i]["Datetime"].t) => \A c \in Channels : df[i][c] = NaN

C3_Witness ==
    /\ Returned
    /\ \E i \in 1..Len(df) : EmptyHour(df[i]["Datetime"].t)

FloorHour(t) == (t \div Hour) * Hour
Timed(g) == ~grouped[g].row["Datetime"].nat

\* C5: two loaded rows with valid timestamps are in the same bin exactly when
\* their timestamps truncate to the same hour, and the record of their bin is
\* the record of that hour.
C5_Grouping ==
    Returned =>
        \A g, k \in 1..Len(grouped) :
            Timed(g) /\ Timed(k) =>
                /\ grouped[g].code \in 1..Len(df)
                /\ df[grouped[g].code]["Datetime"].t
                      = FloorHour(grouped[g].row["Datetime"].t)
                /\ grouped[g].code = grouped[k].code
                      <=> FloorHour(grouped[g].row["Datetime"].t)
                            = FloorHour(grouped[k].row["Datetime"].t)

C5_Witness ==
    /\ Returned
    /\ \E g, k, j \in 1..Len(grouped) :
          /\ Timed(g) /\ Timed(k) /\ Timed(j)
          /\ grouped[g].row["Datetime"].t # grouped[k].row["Datetime"].t
          /\ grouped[g].code = grouped[k].code
          /\ grouped[j].code = grouped[g].code + 1

\* C6: the returned records are strictly ascending by Datetime.
C6_Ascending ==
    Returned =>
        \A i, j \in 1..Len(df) : i < j => df[i]["Datetime"].t < df[j]["Datetime"].t

C6_Witness ==
    /\ Returned
    /\ Len(df) >= 2
    /\ \E p, q \in 1..Len(raw) :
          /\ p < q
          /\ InHour(raw[p].row["Datetime"], df[2]["Datetime"].t)
          /\ InHour(raw[q].row["Datetime"], df[1]["Datetime"].t)

OneBad(r, b) ==
    /\ r["Datetime"].k = "iso"
    /\ r[b].k # "num"
    /\ \A c \in Channels \ {b} : r[c].k = "num"

ParsedRow(r) ==
    [c \in Columns |-> IF c = "Datetime" THEN to_datetime(r[c]) ELSE to_numeric(r[c])]

\* C7: a loaded row with a valid timestamp and exactly one unparseable channel
\* b does not make load_data raise and is kept: it is in the bin of its hour,
\* its value enters that hour's mean of each of the six other channels, and
\* only the mean of b leaves it out.
C7_OtherChannels ==
    BodyRan =>
        \A p \in 1..Len(raw), b \in Channels :
            OneBad(raw[p].row, b) =>
                /\ pc = "loaded"
                /\ \E g \in 1..Len(grouped) :
                      LET i == grouped[g].code
                          h == HourOfText(raw[p].row["Datetime"])
                      IN  /\ grouped[g].row = ParsedRow(raw[p].row)
                          /\ grouped[g].n = raw[p].n
                          /\ i \in 1..Len(df)
                          /\ df[i]["Datetime"].t = h
                          /\ g \notin Contrib(grouped, i, b)
                          /\ \A c \in Channels \ {b} :
                                /\ g \in Contrib(grouped, i, c)
                                /\ ~df[i][c].nan
                                /\ RawCount(raw, h, c) % df[i][c].den = 0
                                /\ df[i][c].num * (RawCount(raw, h, c) \div df[i][c].den)
                                      = RawSum(raw, h, c)

C7_Witness ==
    /\ Returned
    /\ \E p, q \in 1..Len(raw), b \in Channels :
          /\ OneBad(raw[p].row, b)
          /\ raw[q].row[b].k = "num"
          /\ InHour(raw[q].row["Datetime"], HourOfText(raw[p].row["Datetime"]))
          /\ raw[q].row["Global_active_power"].v # raw[p].row["Global_active_power"].v

BadDt(r) == r["Datetime"].k # "iso"

\* C8: a loaded row whose Datetime cannot be parsed does not make load_data
\* raise, is in no bin, adds no record, and the result is the result for the
\* loaded rows without it.
C8_BadTimestampIgnored ==
    (BodyRan /\ \E p \in 1..Len(raw) : BadDt(raw[p].row)) =>
        /\ pc = "loaded"
        /\ \A i \in 1..Len(df) : ~df[i]["Datetime"].nat
        /\ \A g \in 1..Len(grouped) : ~Timed(g) => grouped[g].code = 0
        /\ df = resample(Parse(SelectSeq(raw, LAMBDA u : ~BadDt(u.row))))

\* C4: no run leaves load_data, by return or by exception, with the
\* connection it opened still open.
C4_ConnectionClosed == pc # "idle" => conn # "open"

\* C9: a call of load_data() that finds the cache entry opens no connection
\* and returns the entry's table, whatever the store holds by then; an entry
\* is made only by a call that queried the store and returned, and holds what
\* it returned; an entry is changed by nothing but a cache-clear, which
\* removes it; a call that finds no entry queries the store.
C9_Step ==
    /\ (pc = "idle" /\ pc' # "idle" /\ cache.hit) =>
          /\ conn' = "none"
          /\ outcome' = "ok"
          /\ df' = cache.df
          /\ cache' = cache
    /\ (pc = "idle" /\ pc' # "idle" /\ ~cache.hit) => conn' # "none"
    /\ (~cache.hit /\ cache'.hit) =>
          /\ pc = "idle" /\ pc' = "loaded"
          /\ conn' = "closed"
          /\ cache'.df = df'
    /\ (cache.hit /\ cache' # cache) =>
          /\ cache' = NoEntry
          /\ pc = "idle" /\ pc' = "idle"
          /\ store' = store

C9_Cached == [][C9_Step]_vars

\* a run served from the cache while the store would now give another table
C9_Witness ==
    /\ pc = "loaded"
    /\ cache.hit
    /\ conn = "none"
    /\ df = cache.df
    /\ table_ok
    /\ \A r \in read_sql(store) :
          /\ ~ResampleRaises(sort_index(Parse(r)))
          /\ resample(Parse(r)) # df

DateOf(t) == t \div (24 * Hour)

\* C10: filtered_df holds exactly the records of df whose Datetime falls on a
\* calendar date from start_date to end_date, both included.
C10_InclusiveDates ==
    (pc = "done" /\ page = "Dashboard") =>
        { filtered_df[i]["Datetime"].t : i \in 1..Len(filtered_df) }
            = { t \in RecordHours : start_date <= DateOf(t) /\ DateOf(t) <= end_date }
====
